---- MODULE Spec2Model ----
(***************************************************************************)
(* Model of the latency benchmark harness of llmchess                      *)
(* (src/llmchess/benchmark.py): one BenchmarkHarness and the files it      *)
(* reads and writes.                                                       *)
(*                                                                         *)
(* Python floats are IEEE-754 binary64 numbers.  The statistics of the     *)
(* harness are computed with them, and several of their properties depend  *)
(* on how each operation rounds, so the model carries binary64 values      *)
(* exactly:                                                                *)
(*                                                                         *)
(*   a float is a record [sign, mant, exp] of value                        *)
(*        (-1)^sign * mant * 2^exp                                         *)
(*   where mant is a natural number of exactly MantBits = 53 bits, or      *)
(*   zero (then sign = 0 and exp = 0).  Every arithmetic operation         *)
(*   computes the exact result and rounds it to nearest, ties to even.     *)
(*                                                                         *)
(*   a natural number of any size is the sequence of its digits in base    *)
(*   LimbBase = 2^15, least significant first, with no leading zero        *)
(*   digit: 0 is << >>, 5 is <<5>>, 32768 is <<0, 1>>.                      *)
(*                                                                         *)
(* The exponent is not bounded: overflow to infinity and gradual           *)
(* underflow do not occur for the magnitudes the harness handles           *)
(* (latencies in seconds, percentages).  NaN and the infinities are not    *)
(* values of the model.                                                    *)
(***************************************************************************)
EXTENDS Integers, Sequences, FiniteSets, TLC

(***************************************************************************)
(* Natural numbers of any size                                             *)
(***************************************************************************)
LimbBits == 15
LimbBase == 2^LimbBits

MaxOf(S) == CHOOSE m \in S : \A x \in S : x <= m

\* a without its leading zero digits
NatTrimTo(a, nz) == IF nz = {} THEN << >> ELSE SubSeq(a, 1, MaxOf(nz))

NatTrim(a) ==
    IF a = << >> THEN a ELSE NatTrimTo(a, {i \in 1..Len(a) : a[i] # 0})

\* The natural number k, for 0 <= k < 2^31
NatFromInt(k) ==
    NatTrim(<<k % LimbBase, (k \div LimbBase) % LimbBase,
              k \div (LimbBase * LimbBase)>>)

\* The value of a, for a < 2^31
NatToInt(a) ==
    IF a = << >> THEN 0
    ELSE IF Len(a) = 1 THEN a[1]
    ELSE IF Len(a) = 2 THEN a[1] + LimbBase * a[2]
    ELSE a[1] + LimbBase * a[2] + LimbBase * LimbBase * a[3]

\* Digit i of a, zero beyond its length
Limb(a, i) == IF 1 <= i /\ i <= Len(a) THEN a[i] ELSE 0

Zeros(n) == [i \in 1..n |-> 0]

\* a + b.  A carry enters digit i when some digit j below i overflows and
\* every digit between j and i passes the carry on.
NatAdd(a, b) ==
    IF a = << >> THEN b
    ELSE IF b = << >> THEN a
    ELSE
    LET n == IF Len(a) > Len(b) THEN Len(a) ELSE Len(b)
        Carry(i) ==
            \E j \in 1..(i - 1) :
                /\ Limb(a, j) + Limb(b, j) >= LimbBase
                /\ \A k \in (j + 1)..(i - 1) :
                       Limb(a, k) + Limb(b, k) = LimbBase - 1
    IN  NatTrim([i \in 1..(n + 1) |->
                    (Limb(a, i) + Limb(b, i) + (IF Carry(i) THEN 1 ELSE 0))
                        % LimbBase])

\* a - b for a >= b.  Digit i lends to the digits below it when they hold
\* less in a than in b.
NatSub(a, b) ==
    IF a = << >> \/ b = << >> THEN a
    ELSE
    LET Borrow(i) ==
            \E j \in 1..(i - 1) :
                /\ Limb(a, j) < Limb(b, j)
                /\ \A k \in (j + 1)..(i - 1) : Limb(a, k) = Limb(b, k)
    IN  NatTrim([i \in 1..Len(a) |->
                    (LimbBase + Limb(a, i) - Limb(b, i)
                        - (IF Borrow(i) THEN 1 ELSE 0)) % LimbBase])

\* -1, 0, 1 as a < b, a = b, a > b: the highest digit that differs decides
NatCmpAt(a, b, diff) ==
    IF diff = {} THEN 0
    ELSE IF Limb(a, MaxOf(diff)) < Limb(b, MaxOf(diff)) THEN -1
    ELSE 1

NatCmp(a, b) ==
    IF a = b THEN 0
    ELSE NatCmpAt(a, b, {i \in 1..(Len(a) + Len(b)) : Limb(a, i) # Limb(b, i)})

\* a * k for 0 <= k <= LimbBase: the low halves of the digit products, plus
\* their high halves one digit up
NatMulSmall(a, k) ==
    IF a = << >> \/ k = 0 THEN << >>
    ELSE
    NatAdd(NatTrim([i \in 1..Len(a) |-> (a[i] * k) % LimbBase]),
           NatTrim(<<0>> \o [i \in 1..Len(a) |-> (a[i] * k) \div LimbBase]))

\* a * b: the sum over the digits b[j] of a * b[j], j - 1 digits up
RECURSIVE NatMulFrom(_, _, _)
NatMulFrom(a, b, j) ==
    IF j > Len(b) THEN << >>
    ELSE NatAdd(NatTrim(Zeros(j - 1) \o NatMulSmall(a, b[j])),
                NatMulFrom(a, b, j + 1))

NatMul(a, b) == IF a = << >> \/ b = << >> THEN << >> ELSE NatMulFrom(a, b, 1)

\* a * 2^s, 0 <= s < LimbBits
NatShlBits(a, s) ==
    NatTrim([i \in 1..(Len(a) + 1) |->
                ((Limb(a, i) * 2^s) % LimbBase)
                    + (Limb(a, i - 1) \div 2^(LimbBits - s))])

\* a * 2^n
NatShl(a, n) ==
    IF a = << >> \/ n = 0 THEN a
    ELSE NatTrim(Zeros(n \div LimbBits) \o NatShlBits(a, n % LimbBits))

\* floor(a / 2^s), 0 <= s < LimbBits
NatShrBits(a, s) ==
    NatTrim([i \in 1..Len(a) |->
                (a[i] \div 2^s) + ((Limb(a, i + 1) % 2^s) * 2^(LimbBits - s))])

\* floor(a / 2^n)
NatShr(a, n) ==
    IF a = << >> \/ n = 0 THEN a
    ELSE IF n \div LimbBits >= Len(a) THEN << >>
    ELSE NatShrBits(SubSeq(a, (n \div LimbBits) + 1, Len(a)), n % LimbBits)

\* The number of bits of k, 0 <= k < LimbBase
IntBitLen(k) == CHOOSE n \in 0..LimbBits : k < 2^n /\ (n = 0 \/ 2^(n - 1) <= k)

NatBitLen(a) ==
    IF a = << >> THEN 0 ELSE (Len(a) - 1) * LimbBits + IntBitLen(a[Len(a)])

NatIsOdd(a) == a # << >> /\ a[1] % 2 = 1

\* The digit floor(r / d) for r < d * LimbBase, where the top digit of d is
\* LimbBase / 2 or more: the quotient of the leading digits of r by the top
\* digit of d is at most 2 above it (Knuth, TAOCP 4.3.1, Theorem B).
QuotDigitFrom(r, d, q0) ==
    IF r = << >> \/ q0 = 0 THEN 0
    ELSE IF NatCmp(NatMulSmall(d, q0), r) <= 0 THEN q0
    ELSE IF NatCmp(NatMulSmall(d, q0 - 1), r) <= 0 THEN q0 - 1
    ELSE q0 - 2

QuotDigitEst(est) == IF est > LimbBase - 1 THEN LimbBase - 1 ELSE est

QuotDigit(r, d) ==
    QuotDigitFrom(r, d,
        QuotDigitEst((Limb(r, Len(d) + 1) * LimbBase + Limb(r, Len(d)))
                        \div d[Len(d)]))

\* One step of the long division by d: from <<q, r>> of the digits above
\* digit x to <<q, r>> with x taken in
NatDivStepBy(prev, d, r, q) ==
    IF q = 0 THEN << NatTrim(<<0>> \o prev[1]), r >>
    ELSE << <<q>> \o prev[1], NatSub(r, NatMulSmall(d, q)) >>

NatDivStep(prev, d, r) ==
    IF r = << >> THEN << NatTrim(<<0>> \o prev[1]), r >>
    ELSE NatDivStepBy(prev, d, r, QuotDigit(r, d))

\* <<floor(x / d), x mod d>> for x the number made of the digits i..Len(a) of
\* a: schoolbook long division, one digit of a at a time (d as in QuotDigit).
NatDivStepOn(prev, x, d) ==
    IF prev[2] = << >> /\ x = 0 THEN << NatTrim(<<0>> \o prev[1]), << >> >>
    ELSE NatDivStep(prev, d, NatTrim(<<x>> \o prev[2]))

RECURSIVE NatDivModFrom(_, _, _)
NatDivModFrom(a, d, i) ==
    IF i > Len(a) - Len(d) + 1
    THEN << << >>, NatTrim(SubSeq(a, IF i < 1 THEN 1 ELSE i, Len(a))) >>
    ELSE NatDivStepOn(NatDivModFrom(a, d, i + 1), a[i], d)

\* <<floor(a / d), (a mod d) * 2^k>> for d > 0, where k makes the top digit of
\* d * 2^k at least LimbBase / 2; the remainder is zero exactly when d divides a.
NatDivMod(a, d) ==
    NatDivModFrom(NatShl(a, LimbBits - IntBitLen(d[Len(d)])),
                  NatShl(d, LimbBits - IntBitLen(d[Len(d)])), 1)

(***************************************************************************)
(* binary64 floating point (Python float)                                  *)
(***************************************************************************)
MantBits == 53

FZero == [sign |-> 0, mant |-> << >>, exp |-> 0]

IsZero(x) == x.mant = << >>

\* The binary64 nearest to (-1)^sign * m * 2^e, ties to the even mantissa.
Round(sign, m, e) ==
    LET len == NatBitLen(m) IN
    IF m = << >> THEN FZero
    ELSE IF len <= MantBits
    THEN [sign |-> sign, mant |-> NatShl(m, MantBits - len),
          exp |-> e - (MantBits - len)]
    ELSE LET s    == len - MantBits
             q    == NatShr(m, s)
             r    == NatSub(m, NatShl(q, s))
             c    == NatCmp(r, NatShl(<<1>>, s - 1))
             up   == c > 0 \/ (c = 0 /\ NatIsOdd(q))
             q2   == IF up THEN NatAdd(q, <<1>>) ELSE q
         IN  IF NatBitLen(q2) > MantBits
             THEN [sign |-> sign, mant |-> NatShr(q2, 1), exp |-> e + s + 1]
             ELSE [sign |-> sign, mant |-> q2, exp |-> e + s]

\* float(k) of a Python int k
FromInt(k) == Round(IF k < 0 THEN 1 ELSE 0, NatFromInt(IF k < 0 THEN -k ELSE k), 0)

\* The binary64 nearest to (-1)^sign * (n / d) * 2^e, for naturals n and d > 0:
\* the quotient is taken to 55 bits or more and a sticky bit records an
\* inexact division, so that one rounding decides the result.
RoundRatio(sign, n, d, e) ==
    IF n = << >> THEN FZero
    ELSE LET gap == MantBits + 3 + NatBitLen(d) - NatBitLen(n)
             s   == IF gap < 0 THEN 0 ELSE gap
             qr == NatDivMod(NatShl(n, s), d)
             m  == NatAdd(NatMulSmall(qr[1], 2),
                          IF qr[2] = << >> THEN << >> ELSE <<1>>)
         IN  Round(sign, m, e - s - 1)

\* The float a Python literal num/den denotes (0.051 is Dec(51, 1000)):
\* the decimal value correctly rounded.
Dec(num, den) == RoundRatio(0, NatFromInt(num), NatFromInt(den), 0)

FNeg(x) == IF IsZero(x) THEN x ELSE [x EXCEPT !.sign = 1 - x.sign]

\* -1, 0, 1 as |x| < |y|, |x| = |y|, |x| > |y|
MagCmp(x, y) ==
    IF IsZero(x) THEN (IF IsZero(y) THEN 0 ELSE -1)
    ELSE IF IsZero(y) THEN 1
    ELSE IF x.exp < y.exp THEN -1
    ELSE IF x.exp > y.exp THEN 1
    ELSE NatCmp(x.mant, y.mant)

\* -1, 0, 1 as x < y, x = y, x > y
FCmp(x, y) ==
    IF x.sign # y.sign THEN (IF x.sign = 1 THEN -1 ELSE 1)
    ELSE IF x.sign = 0 THEN MagCmp(x, y)
    ELSE MagCmp(y, x)

FLe(x, y) == FCmp(x, y) <= 0
FLt(x, y) == FCmp(x, y) < 0
FGt(x, y) == FCmp(x, y) > 0
FGe(x, y) == FCmp(x, y) >= 0

\* x + y without rounding: a record [sign, mant, exp] whose mant has any size
ExactAdd(x, y) ==
    IF IsZero(x) THEN y
    ELSE IF IsZero(y) THEN x
    ELSE LET e  == IF x.exp < y.exp THEN x.exp ELSE y.exp
             mx == NatShl(x.mant, x.exp - e)
             my == NatShl(y.mant, y.exp - e)
             c  == NatCmp(mx, my)
         IN  IF x.sign = y.sign
             THEN [sign |-> x.sign, mant |-> NatAdd(mx, my), exp |-> e]
             ELSE IF c = 0 THEN FZero
             ELSE IF c > 0
             THEN [sign |-> x.sign, mant |-> NatSub(mx, my), exp |-> e]
             ELSE [sign |-> y.sign, mant |-> NatSub(my, mx), exp |-> e]

\* x + y
FAdd(x, y) ==
    IF IsZero(x) THEN y
    ELSE IF IsZero(y) THEN x
    ELSE LET t == ExactAdd(x, y) IN Round(t.sign, t.mant, t.exp)

\* x - y
FSub(x, y) == IF IsZero(y) THEN x ELSE FAdd(x, FNeg(y))

\* x * y
FMul(x, y) ==
    IF IsZero(x) \/ IsZero(y) THEN FZero
    ELSE Round(IF x.sign = y.sign THEN 0 ELSE 1,
               NatMul(x.mant, y.mant), x.exp + y.exp)

\* x / y for y # 0
FDiv(x, y) ==
    IF IsZero(x) THEN FZero
    ELSE RoundRatio(IF x.sign = y.sign THEN 0 ELSE 1,
                    x.mant, y.mant, x.exp - y.exp)

\* int(x): the integer part of x, towards zero
FTrunc(x) ==
    LET n == IF x.exp >= 0 THEN NatToInt(NatShl(x.mant, x.exp))
             ELSE NatToInt(NatShr(x.mant, -x.exp))
    IN  IF x.sign = 1 THEN -n ELSE n

(***************************************************************************)
(* Python values other than numbers                                        *)
(***************************************************************************)
\* None
None == [None |-> TRUE]

\* The outcome of a call that raises the exception named e
Raise(e) == [raised |-> e]

RaiseWith(e, message) == [raised |-> e, message |-> message]

IsRaised(v) == "raised" \in DOMAIN v

(***************************************************************************)
(* Statistics (Python's statistics module, min, max, sorted)               *)
(***************************************************************************)
\* sorted(data) is a stable sort: data[i] comes after the elements smaller
\* than it and after the equal elements given before it.  SortedRanks(data)[i]
\* is the number of elements that come before data[i].
SortedRanks(data) ==
    [i \in DOMAIN data |->
        Cardinality({j \in DOMAIN data :
                        IF j < i THEN ~FLt(data[i], data[j])
                        ELSE FLt(data[j], data[i])})]

SortedByRanks(data, ranks) ==
    IF ranks = << >> THEN << >>
    ELSE [k \in DOMAIN data |->
             data[CHOOSE i \in DOMAIN data : ranks[i] = k - 1]]

\* Mutant of sorted: the data are left in the order given
sorted_Unsorted(data) == data

sorted(data) == SortedByRanks(data, SortedRanks(data))

\* The exact sum of data[lo..hi], not rounded, by halves
RECURSIVE ExactSum(_, _, _)
ExactSum(data, lo, hi) ==
    IF lo > hi THEN FZero
    ELSE IF lo = hi THEN data[lo]
    ELSE ExactAdd(ExactSum(data, lo, (lo + hi) \div 2),
                  ExactSum(data, (lo + hi) \div 2 + 1, hi))

\* Mutant of mean: the sum, not divided by the count
mean_Sum(data) ==
    IF data = << >> THEN Raise("StatisticsError")
    ELSE Round(ExactSum(data, 1, Len(data)).sign, ExactSum(data, 1, Len(data)).mant,
               ExactSum(data, 1, Len(data)).exp)

\* statistics.mean: the exact sum divided by the count, rounded once.
\* Empty data raises StatisticsError.
mean(data) ==
    IF data = << >> THEN Raise("StatisticsError")
    ELSE LET t == ExactSum(data, 1, Len(data))
         IN  RoundRatio(t.sign, t.mant, NatFromInt(Len(data)), t.exp)

\* statistics.median: the middle element of the sorted data, or the float
\* average of the two middle elements.  Empty data raises StatisticsError.
median(data) ==
    LET s == sorted(data)
        n == Len(data)
        i == n \div 2
    IN  IF n = 0 THEN Raise("StatisticsError")
        ELSE IF n % 2 = 1 THEN s[i + 1]
        ELSE FDiv(FAdd(s[i], s[i + 1]), FromInt(2))

\* min(data), max(data): the first smallest and the first largest element;
\* ValueError on empty data
RECURSIVE MinFrom(_, _, _)
MinOfTwo(x, y) == IF FLt(y, x) THEN y ELSE x

MinFrom(data, lo, hi) ==
    IF lo = hi THEN data[lo]
    ELSE MinOfTwo(MinFrom(data, lo, (lo + hi) \div 2),
                  MinFrom(data, (lo + hi) \div 2 + 1, hi))

RECURSIVE MaxFrom(_, _, _)
MaxOfTwo(x, y) == IF FGt(y, x) THEN y ELSE x

MaxFrom(data, lo, hi) ==
    IF lo = hi THEN data[lo]
    ELSE MaxOfTwo(MaxFrom(data, lo, (lo + hi) \div 2),
                  MaxFrom(data, (lo + hi) \div 2 + 1, hi))

min(data) == IF data = << >> THEN Raise("ValueError") ELSE MinFrom(data, 1, Len(data))
max(data) == IF data = << >> THEN Raise("ValueError") ELSE MaxFrom(data, 1, Len(data))

\* floor(sqrt(a)) by Newton's iteration from x >= sqrt(a)
RECURSIVE NewtonSqrt(_, _)
NewtonStep(a, x, y) == IF NatCmp(y, x) >= 0 THEN x ELSE NewtonSqrt(a, y)

NewtonSqrt(a, x) == NewtonStep(a, x, NatShr(NatAdd(x, NatDivMod(a, x)[1]), 1))

NatSqrt(a) ==
    IF a = << >> THEN a
    ELSE NewtonSqrt(a, NatShl(<<1>>, (NatBitLen(a) + 1) \div 2))

\* The binary64 nearest to sqrt(n / d) * 2^e, for naturals n and d > 0: the
\* root of floor(n * 2^(2t) / d) is taken to 56 bits or more, and a sticky
\* bit records an inexact division or root.
SqrtOfQuotient(qr, e) ==
    LET r      == NatSqrt(qr[1])
        sticky == IF qr[2] = << >> /\ NatMul(r, r) = qr[1] THEN << >> ELSE <<1>>
    IN  Round(0, NatAdd(NatMulSmall(r, 2), sticky), e)

RoundSqrt(n, d, e) ==
    IF n = << >> THEN FZero
    ELSE LET gap == 2 * MantBits + 6 + NatBitLen(d) - NatBitLen(n)
             t   == IF gap < 0 THEN 0 ELSE (gap + 1) \div 2
         IN  SqrtOfQuotient(NatDivMod(NatShl(n, 2 * t), d), e - t - 1)

\* The exact sum of the squares of data[lo..hi], not rounded, by halves
RECURSIVE ExactSumSquares(_, _, _)
ExactSumSquares(data, lo, hi) ==
    IF lo > hi THEN FZero
    ELSE IF lo = hi
    THEN [sign |-> 0, mant |-> NatMul(data[lo].mant, data[lo].mant),
          exp |-> IF IsZero(data[lo]) THEN 0 ELSE 2 * data[lo].exp]
    ELSE ExactAdd(ExactSumSquares(data, lo, (lo + hi) \div 2),
                  ExactSumSquares(data, (lo + hi) \div 2 + 1, hi))

\* count * sxx - sx * sx of statistics._ss, exact: a record [sign, mant, exp]
SumSquaredDeviations(sx, sxx, count) ==
    ExactAdd([sxx EXCEPT !.mant = NatMulSmall(sxx.mant, count)],
             [sign |-> IF IsZero(sx) THEN 0 ELSE 1,
              mant |-> NatMul(sx.mant, sx.mant),
              exp  |-> IF IsZero(sx) THEN 0 ELSE 2 * sx.exp])

\* The square root of ssd / d, ssd being mant * 2^exp: the exponent is made
\* even first
RootOfVariance(ssd, d) ==
    IF ssd.exp % 2 = 0
    THEN RoundSqrt(ssd.mant, NatFromInt(d), ssd.exp \div 2)
    ELSE RoundSqrt(NatMulSmall(ssd.mant, 2), NatFromInt(d), (ssd.exp - 1) \div 2)

\* statistics.stdev: the square root of the exact sample variance, rounded
\* once.  Fewer than two data points raise StatisticsError.
stdev(data) ==
    IF Len(data) < 2 THEN Raise("StatisticsError")
    ELSE RootOfVariance(
             SumSquaredDeviations(ExactSum(data, 1, Len(data)),
                                  ExactSumSquares(data, 1, Len(data)), Len(data)),
             Len(data) * (Len(data) - 1))

\* lst[i] of a Python list (0-based, negative indices count from the end)
PyIndexOk(lst, i) == -Len(lst) <= i /\ i < Len(lst)
PyIndex(lst, i) == IF i >= 0 THEN lst[i + 1] ELSE lst[Len(lst) + i + 1]

\* Mutant of Interpolate: the nearest rank below, with no interpolation
Interpolate_NearestRank(sorted_data, index, lower) ==
    IF lower + 1 >= Len(sorted_data)
    THEN (IF PyIndexOk(sorted_data, -1) THEN PyIndex(sorted_data, -1)
          ELSE Raise("IndexError"))
    ELSE PyIndex(sorted_data, lower)

\* The last lines of _percentile: the clamp at the top, or the interpolation
\* between sorted_data[lower] and sorted_data[upper]
Interpolate(sorted_data, index, lower) ==
    LET upper  == lower + 1
        weight == FSub(index, FromInt(lower))
    IN  IF upper >= Len(sorted_data)
        THEN (IF PyIndexOk(sorted_data, -1) THEN PyIndex(sorted_data, -1)
              ELSE Raise("IndexError"))
        ELSE IF ~PyIndexOk(sorted_data, lower) \/ ~PyIndexOk(sorted_data, upper)
        THEN Raise("IndexError")
        ELSE FAdd(FMul(PyIndex(sorted_data, lower), FSub(FromInt(1), weight)),
                  FMul(PyIndex(sorted_data, upper), weight))

\* Mutant of PercentileIndex: the index runs to len, not to len - 1
PercentileIndex_ByLen(percentile, len) ==
    FMul(FDiv(percentile, FromInt(100)), FromInt(len))

\* index = (percentile / 100) * (len(sorted_data) - 1)
PercentileIndex(percentile, len) ==
    FMul(FDiv(percentile, FromInt(100)), FromInt(len - 1))

\* BenchmarkHarness._percentile(data, percentile), percentile a float:
\* lower = int(index), and the rest as in Interpolate
PercentileOfSorted(sorted_data, index) ==
    Interpolate(sorted_data, index, FTrunc(index))

_percentile(data, percentile) ==
    PercentileOfSorted(sorted(data), PercentileIndex(percentile, Len(data)))

(***************************************************************************)
(* The model's inputs                                                      *)
(***************************************************************************)
\* The largest num_iterations a harness is given
MaxIter == 2

\* The latencies get_move_with_timing may measure around a response time of
\* 0.05 s: 0.0559 s and 0.115 s
Latencies == {Dec(559, 10000), Dec(115, 1000)}

\* threshold_percent: the default 10.0 and the regression script's 15.0
Thresholds == {FromInt(10), FromInt(15)}

\* The files of the harness: the regression script's baseline
Paths == {"benchmark_baseline.json"}

(***************************************************************************)
(* Durable storage: the content of a file is                               *)
(*   Absent        no such file                                            *)
(*   Unparsable    text that json.load rejects (empty, truncated)          *)
(*   Json(obj)     the text of the JSON object obj, a record               *)
(* json.dump writes each float as its repr, the shortest decimal that      *)
(* json.load reads back as the same binary64, and each int and list as     *)
(* itself: Json(obj) stands for the text and for what json.load returns.   *)
(***************************************************************************)
Absent == [kind |-> "absent"]
Unparsable == [kind |-> "unparsable"]
Json(obj) == [kind |-> "json", obj |-> obj]

\* The baselines a caller writes by hand, as the tests do: means 0.0, 0.05
\* and 0.1, an object with no "mean", and text that is not JSON
BaselineMeans == {FZero, Dec(5, 100), Dec(1, 10)}
WrittenContents ==
    {Json([mean |-> m, median |-> m]) : m \in BaselineMeans}
        \cup {Json([median |-> Dec(5, 100)]), Unparsable}

(***************************************************************************)
(* llmchess/config.py and llmchess/cli.py.  A str is the record of the     *)
(* sequence of its code points, Str(<<103, 112, 116>>) for "gpt"; the      *)
(* regular expressions are matched by the sets of positions a match can    *)
(* have reached, a position being the index of the next character to read. *)
(***************************************************************************)
Str(chars) == [str |-> chars]

\* bool(v) of a value that is None or a str
Truthy(v) == v # None /\ v.str # << >>

\* [a-zA-Z] and [0-9] of a pattern without flags
IsAsciiLetter(c) == c \in 65..90 \/ c \in 97..122
IsAsciiDigit(c) == c \in 48..57

\* [A-Z] under re.IGNORECASE: the 52 letters and the four characters whose
\* case folding is one of them (U+0130, U+0131, U+017F, U+212A)
IsLetterIgnoreCase(c) == IsAsciiLetter(c) \/ c \in {304, 305, 383, 8490}

\* \d of a str pattern: the decimal digits of Unicode, by ranges
DecimalDigitRanges ==
    {<<48, 57>>, <<1632, 1641>>, <<1776, 1785>>, <<1984, 1993>>,
     <<2406, 2415>>, <<2534, 2543>>, <<2662, 2671>>, <<2790, 2799>>,
     <<2918, 2927>>, <<3046, 3055>>, <<3174, 3183>>, <<3302, 3311>>,
     <<3430, 3439>>, <<3558, 3567>>, <<3664, 3673>>, <<3792, 3801>>,
     <<3872, 3881>>, <<4160, 4169>>, <<4240, 4249>>, <<6112, 6121>>,
     <<6160, 6169>>, <<6470, 6479>>, <<6608, 6617>>, <<6784, 6793>>,
     <<6800, 6809>>, <<6992, 7001>>, <<7088, 7097>>, <<7232, 7241>>,
     <<7248, 7257>>, <<42528, 42537>>, <<43216, 43225>>, <<43264, 43273>>,
     <<43472, 43481>>, <<43504, 43513>>, <<43600, 43609>>,
     <<44016, 44025>>, <<65296, 65305>>, <<66720, 66729>>,
     <<68912, 68921>>, <<69734, 69743>>, <<69872, 69881>>,
     <<69942, 69951>>, <<70096, 70105>>, <<70384, 70393>>,
     <<70736, 70745>>, <<70864, 70873>>, <<71248, 71257>>,
     <<71360, 71369>>, <<71472, 71481>>, <<71904, 71913>>,
     <<72016, 72025>>, <<72784, 72793>>, <<73040, 73049>>,
     <<73120, 73129>>, <<92768, 92777>>, <<92864, 92873>>,
     <<93008, 93017>>, <<120782, 120831>>, <<123200, 123209>>,
     <<123632, 123641>>, <<125264, 125273>>, <<130032, 130041>>}
IsDecimalDigit(c) == \E r \in DecimalDigitRanges : c >= r[1] /\ c <= r[2]

\* \s of a str pattern
IsWhitespace(c) ==
    \/ c \in 9..13 \/ c \in 28..32 \/ c \in 8192..8202
    \/ c \in {133, 160, 5760, 8232, 8233, 8239, 8287, 12288}

\* [A-Z0-9] and [A-Z0-9-] under re.IGNORECASE
IsLabelEdge(c) == IsLetterIgnoreCase(c) \/ IsAsciiDigit(c)
IsLabelInner(c) == IsLabelEdge(c) \/ c = 45

\* A character of the pattern, written in lower case, against a character
\* of the text under re.IGNORECASE
EqIgnoreCase(c, l) ==
    \/ c = l
    \/ l \in 97..122 /\ c = l - 32
    \/ l = 105 /\ c \in {304, 305}
    \/ l = 107 /\ c = 8490
    \/ l = 115 /\ c = 383

\* The positions after the literal lit, read from a position of P on
AfterLiteral(s, P, lit) ==
    {p + Len(lit) :
        p \in {q \in P : /\ q + Len(lit) - 1 <= Len(s)
                         /\ \A i \in 1..Len(lit) :
                                EqIgnoreCase(s[q + i - 1], lit[i])}}

\* [a-zA-Z0-9/_.-]
IsModelChar(c) ==
    IsAsciiLetter(c) \/ IsAsciiDigit(c) \/ c \in {47, 95, 46, 45}

\* The classes of characters of the two patterns, by name
InClass(class, c) ==
    CASE class = "[A-Z0-9]" -> IsLabelEdge(c)
      [] class = "[A-Z0-9-]" -> IsLabelInner(c)
      [] class = "[A-Z]" -> IsLetterIgnoreCase(c)
      [] class = "\\d" -> IsDecimalDigit(c)
      [] class = "[/?]" -> c = 47 \/ c = 63
      [] class = "\\S" -> ~IsWhitespace(c)
      [] class = "[a-zA-Z0-9/_.-]" -> IsModelChar(c)

\* The positions after lo to hi characters of the class, read from a
\* position of P on: class{lo,hi}
AfterClass(s, P, class, lo, hi) ==
    UNION {{p + k : k \in {j \in lo..hi :
                              /\ p + j - 1 <= Len(s)
                              /\ \A i \in p..(p + j - 1) : InClass(class, s[i])}} :
           p \in P}

\* [A-Z0-9](?:[A-Z0-9-]{0,61}[A-Z0-9])?\.
AfterLabel(s, P) ==
    AfterLiteral(s,
        AfterClass(s, P, "[A-Z0-9]", 1, 1)
            \cup AfterClass(s, AfterClass(s, AfterClass(s, P, "[A-Z0-9]", 1, 1),
                                          "[A-Z0-9-]", 0, 61),
                            "[A-Z0-9]", 1, 1),
        <<46>>)

\* (?:label)+ : one label or more
RECURSIVE AfterLabels(_, _, _)
AfterLabels(s, P, reached) ==
    IF AfterLabel(s, P) \subseteq reached THEN reached
    ELSE AfterLabels(s, AfterLabel(s, P) \ reached,
                     reached \cup AfterLabel(s, P))

\* (?:label)+[A-Z]{2,6}\.?
AfterDomain(s, P) ==
    AfterClass(s, AfterLabels(s, P, {}), "[A-Z]", 2, 6)
        \cup AfterLiteral(s, AfterClass(s, AfterLabels(s, P, {}), "[A-Z]", 2, 6),
                          <<46>>)

\* \d{1,3}\.\d{1,3}\.\d{1,3}\.\d{1,3}
AfterOctetDot(s, P) == AfterLiteral(s, AfterClass(s, P, "\\d", 1, 3), <<46>>)
AfterIPv4(s, P) ==
    AfterClass(s, AfterOctetDot(s, AfterOctetDot(s, AfterOctetDot(s, P))),
               "\\d", 1, 3)

\* domain, localhost or ip
AfterHost(s, P) ==
    AfterDomain(s, P)
        \cup AfterLiteral(s, P, <<108, 111, 99, 97, 108, 104, 111, 115, 116>>)
        \cup AfterIPv4(s, P)

\* (?::\d+)?
AfterPort(s, P) ==
    P \cup AfterClass(s, AfterLiteral(s, P, <<58>>), "\\d", 1, Len(s))

\* $ without re.MULTILINE: the end of the text, or the newline that ends it
AtEnd(s, p) == p = Len(s) + 1 \/ (p = Len(s) /\ s[p] = 10)

\* (?:/?|[/?]\S+)$
EndsAfterPath(s, P) ==
    \E p \in P \cup AfterLiteral(s, P, <<47>>)
               \cup AfterClass(s, AfterClass(s, P, "[/?]", 1, 1),
                               "\\S", 1, Len(s)) :
        AtEnd(s, p)

\* ^https?://
AfterScheme(s) ==
    AfterLiteral(s,
        AfterLiteral(s, {1}, <<104, 116, 116, 112>>)
            \cup AfterLiteral(s, {1}, <<104, 116, 116, 112, 115>>),
        <<58, 47, 47>>)

\* url_pattern.match(url)
UrlPatternMatches(s) == EndsAfterPath(s, AfterPort(s, AfterHost(s, AfterScheme(s))))

\* Config._is_valid_url(url)
_is_valid_url(url) ==
    IF ~Truthy(url) THEN FALSE ELSE UrlPatternMatches(url.str)

\* model.strip(): whether anything is left of the text
StripsToEmpty(s) == \A i \in 1..Len(s) : IsWhitespace(s[i])

\* model_pattern.match(model): ^[a-zA-Z0-9/_.-]+$
ModelPatternMatches(s) ==
    \E p \in AfterClass(s, {1}, "[a-zA-Z0-9/_.-]", 1, Len(s)) : AtEnd(s, p)

\* Config._is_valid_model_name(model)
_is_valid_model_name(model) ==
    IF ~Truthy(model) THEN FALSE
    ELSE IF StripsToEmpty(model.str) THEN FALSE
    ELSE ModelPatternMatches(model.str)

\* The messages of the four violations
EndpointRequiredText ==
    "AZURE_AI_FOUNDRY_ENDPOINT is required. Set it via environment variable or command line argument."
EndpointInvalidText ==
    "AZURE_AI_FOUNDRY_ENDPOINT is not a valid URL: '{self.endpoint}'. Expected format: https://your-resource.azure.com"
ModelRequiredText ==
    "AZURE_AI_MODEL is required. Set it via environment variable or command line argument."
ModelInvalidText ==
    "AZURE_AI_MODEL has invalid format: '{self.model}'. Expected format: deployment-name or provider/model-name"

\* The entries of errors that validate appends for the endpoint and for
\* the model
EndpointErrors(endpoint) ==
    IF ~Truthy(endpoint)
    THEN <<[text |-> EndpointRequiredText, values |-> << >>]>>
    ELSE IF ~_is_valid_url(endpoint)
    THEN <<[text |-> EndpointInvalidText, values |-> <<endpoint>>]>>
    ELSE << >>
ModelErrors(model) ==
    IF ~Truthy(model)
    THEN <<[text |-> ModelRequiredText, values |-> << >>]>>
    ELSE IF ~_is_valid_model_name(model)
    THEN <<[text |-> ModelInvalidText, values |-> <<model>>]>>
    ELSE << >>

\* The end of validate: ConfigurationError of "Configuration validation
\* failed:" followed by one "  - " line for each entry, or None
RaiseIfErrors(errors) ==
    IF errors # << >>
    THEN RaiseWith("ConfigurationError",
                   [text |-> "Configuration validation failed:\n",
                    lines |-> errors])
    ELSE None

\* Mutant of ValidateResult: the first violation found is raised at once
ValidateResult_FirstOnly(endpoint, model) ==
    IF EndpointErrors(endpoint) # << >>
    THEN RaiseIfErrors(EndpointErrors(endpoint))
    ELSE RaiseIfErrors(ModelErrors(model))

\* What Config.validate() returns or raises on a Config of these fields
ValidateResult(endpoint, model) ==
    RaiseIfErrors(EndpointErrors(endpoint) \o ModelErrors(model))

\* The texts given as parameters, flags and environment variables
TestAzureCom == Str(<<104, 116, 116, 112, 115, 58, 47, 47, 116, 101, 115, 116, 46, 97, 122, 117, 114, 101, 46, 99, 111, 109>>)   \* "https://test.azure.com"
NotAValidUrl == Str(<<110, 111, 116, 45, 97, 45, 118, 97, 108, 105, 100, 45, 117, 114, 108>>)   \* "not-a-valid-url"
Gpt4 == Str(<<103, 112, 116, 45, 52>>)   \* "gpt-4"
InvalidAtModel == Str(<<105, 110, 118, 97, 108, 105, 100, 64, 109, 111, 100, 101, 108>>)   \* "invalid@model"
EndpointTexts == {TestAzureCom, NotAValidUrl}
ModelTexts == {Gpt4, InvalidAtModel}

\* os.environ: of each variable, None when unset
EnvironValues ==
    [AZURE_AI_FOUNDRY_ENDPOINT : {None, TestAzureCom},
     AZURE_AI_MODEL : {None, Gpt4}]

(***************************************************************************)
(* The state of one BenchmarkHarness and of the storage                    *)
(***************************************************************************)
VARIABLES
    num_iterations,      \* self.num_iterations
    mock_response_time,  \* self.mock_response_time
    results,             \* self.results
    _results_dict,       \* self._results_dict: None or the ResultRecord
    fs,                  \* fs[path]: the content of the file at path
    ret,                 \* the last call: its name, arguments and outcome
    pc,                  \* the call in progress: its name, the line it has
                         \* reached and its local variables
    environ,             \* os.environ: the two variables Config reads
    config               \* the Config built last: None or its fields

vars == <<num_iterations, mock_response_time, results, _results_dict, fs, ret,
          pc, environ, config>>

\* BenchmarkHarness.__init__(num_iterations, mock_response_time = 0.05)
Init ==
    /\ num_iterations \in -1..MaxIter
    /\ mock_response_time = Dec(5, 100)
    /\ results = << >>
    /\ _results_dict = None
    /\ fs = [p \in Paths |-> Absent]
    /\ ret = [op |-> "__init__"]
    /\ pc = [op |-> "idle"]
    /\ environ = [AZURE_AI_FOUNDRY_ENDPOINT |-> None, AZURE_AI_MODEL |-> None]
    /\ config = None

\* Mutant of ResultsDict: no samples give a record of zeros
ResultsDict_EmptyAllowed(latencies) ==
    [num_iterations     |-> num_iterations,
     mock_response_time |-> mock_response_time,
     latencies          |-> latencies,
     mean               |-> IF latencies = << >> THEN FZero ELSE mean(latencies),
     median             |-> IF latencies = << >> THEN FZero ELSE median(latencies),
     stdev              |-> FZero,
     min                |-> IF latencies = << >> THEN FZero ELSE min(latencies),
     max                |-> IF latencies = << >> THEN FZero ELSE max(latencies),
     p95                |-> IF latencies = << >> THEN FZero ELSE max(latencies),
     p99                |-> IF latencies = << >> THEN FZero ELSE max(latencies)]

\* The dict run_benchmark builds from the measured latencies, or the
\* exception its first failing entry raises
ResultsDict(latencies) ==
    IF latencies = << >> THEN mean(latencies)
    ELSE [num_iterations     |-> num_iterations,
          mock_response_time |-> mock_response_time,
          latencies          |-> latencies,
          mean               |-> mean(latencies),
          median             |-> median(latencies),
          stdev              |-> IF Len(latencies) > 1 THEN stdev(latencies)
                                 ELSE FZero,
          min                |-> min(latencies),
          max                |-> max(latencies),
          p95                |-> _percentile(latencies, FromInt(95)),
          p99                |-> _percentile(latencies, FromInt(99))]

\* No call is in progress: the caller of the harness makes one call at a time
Idle == pc.op = "idle"

(***************************************************************************)
(* run_benchmark, step by step: the call waits in time.sleep on every pass *)
(* of its loop, so that an assignment made to the harness by another       *)
(* thread falls between two of its lines.  pc.line is the line the call    *)
(* has reached, pc.remaining what is left of range(self.num_iterations),   *)
(* which line 40 evaluates once, and pc.latencies the local list.          *)
(***************************************************************************)
\* Mutant of RunStart: the list begins with the samples of the runs before
\* (latencies = self.results instead of a fresh list)
RunStart_Accumulate ==
    /\ Idle
    /\ pc' = [op |-> "run_benchmark", line |-> 40,
              remaining |-> IF num_iterations > 0 THEN num_iterations ELSE 0,
              latencies |-> results]
    /\ UNCHANGED <<environ, config, num_iterations, mock_response_time,
                   results, _results_dict, fs, ret>>

\* Lines 32-40: latencies = [] and range(self.num_iterations)
RunStart ==
    /\ Idle
    /\ pc' = [op |-> "run_benchmark", line |-> 40,
              remaining |-> IF num_iterations > 0 THEN num_iterations ELSE 0,
              latencies |-> << >>]
    /\ UNCHANGED <<environ, config, num_iterations, mock_response_time,
                   results, _results_dict, fs, ret>>

\* Lines 41-42, one pass of the loop: get_move_with_timing waits and
\* measures latency, which is appended
RunMeasure ==
    /\ pc.op = "run_benchmark" /\ pc.line = 40 /\ pc.remaining > 0
    /\ \E latency \in Latencies :
           pc' = [pc EXCEPT !.remaining = @ - 1,
                            !.latencies = Append(@, latency)]
    /\ UNCHANGED <<environ, config, num_iterations, mock_response_time,
                   results, _results_dict, fs, ret>>

\* Line 44, after the loop: self.results = latencies
RunAssign ==
    /\ pc.op = "run_benchmark" /\ pc.line = 40 /\ pc.remaining = 0
    /\ results' = pc.latencies
    /\ pc' = [pc EXCEPT !.line = 46]
    /\ UNCHANGED <<environ, config, num_iterations, mock_response_time,
                   _results_dict, fs, ret>>

\* Lines 46-59: the dict is built, self.num_iterations being read again, and
\* assigned to self._results_dict unless one of its entries raises
RunRecord ==
    /\ pc.op = "run_benchmark" /\ pc.line = 46
    /\ \E d \in {ResultsDict(pc.latencies)} :
           /\ _results_dict' = IF IsRaised(d) THEN _results_dict ELSE d
           /\ ret' = [op |-> "run_benchmark", samples |-> pc.latencies,
                      result |-> d]
    /\ pc' = [op |-> "idle"]
    /\ UNCHANGED <<environ, config, num_iterations, mock_response_time,
                   results, fs>>

\* BenchmarkHarness.run_benchmark()
RunBenchmark ==
    \/ RunStart
    \/ RunMeasure
    \/ RunAssign
    \/ RunRecord

\* Mutant of save_results: the file is opened for writing, and so emptied,
\* before the record is tested
save_results_OpenFirst(filepath) ==
    /\ fs' = [fs EXCEPT ![filepath] =
                 IF _results_dict = None THEN Unparsable ELSE Json(_results_dict)]
    /\ ret' = [op |-> "save_results", filepath |-> filepath,
               result |-> IF _results_dict = None
                          THEN RaiseWith("ValueError",
                              "No benchmark results to save. Run benchmark first.")
                          ELSE None]
    /\ UNCHANGED <<pc, environ, config, num_iterations, mock_response_time, results, _results_dict>>

\* BenchmarkHarness.save_results(filepath)
save_results(filepath) ==
    IF _results_dict = None
    THEN /\ ret' = [op |-> "save_results", filepath |-> filepath,
                    result |-> RaiseWith("ValueError",
                        "No benchmark results to save. Run benchmark first.")]
         /\ UNCHANGED <<pc, environ, config, num_iterations, mock_response_time, results,
                        _results_dict, fs>>
    ELSE /\ fs' = [fs EXCEPT ![filepath] = Json(_results_dict)]
         /\ ret' = [op |-> "save_results", filepath |-> filepath,
                    result |-> None]
         /\ UNCHANGED <<pc, environ, config, num_iterations, mock_response_time, results,
                        _results_dict>>

SaveResults == Idle /\ \E filepath \in Paths : save_results(filepath)

\* The tuple (passed, message) check_regression returns.  A message is the
\* text of its f-string and the values formatted into it, unformatted.
Verdict(passed, text, values) ==
    [passed |-> passed, message |-> [text |-> text, values |-> values]]

\* Mutant of PercentChange: the ratio of the means, without the subtraction
PercentChange_Ratio(current_mean, baseline_mean) ==
    FMul(FDiv(current_mean, baseline_mean), FromInt(100))

\* ((current_mean - baseline_mean) / baseline_mean) * 100
PercentChange(current_mean, baseline_mean) ==
    FMul(FDiv(FSub(current_mean, baseline_mean), baseline_mean), FromInt(100))

\* The f-strings of the two verdicts of the comparison
RegressionDetectedText ==
    "Performance regression detected! Mean latency increased by {percent_change:.2f}% (baseline: {baseline_mean:.4f}s, current: {current_mean:.4f}s, threshold: {threshold_percent}%)"
CheckPassedText ==
    "Performance check passed. Mean latency change: {percent_change:.2f}% (baseline: {baseline_mean:.4f}s, current: {current_mean:.4f}s)"

\* Mutant of Compare: fails at a change equal to the threshold (>= for >)
Compare_AtThresholdFails(current_mean, baseline_mean, percent_change, threshold_percent) ==
    IF FGe(percent_change, threshold_percent)
    THEN Verdict(FALSE, RegressionDetectedText,
                 <<percent_change, baseline_mean, current_mean,
                   threshold_percent>>)
    ELSE Verdict(TRUE, CheckPassedText,
                 <<percent_change, baseline_mean, current_mean>>)

\* The end of check_regression: the comparison with the threshold
Compare(current_mean, baseline_mean, percent_change, threshold_percent) ==
    IF FGt(percent_change, threshold_percent)
    THEN Verdict(FALSE, RegressionDetectedText,
                 <<percent_change, baseline_mean, current_mean,
                   threshold_percent>>)
    ELSE Verdict(TRUE, CheckPassedText,
                 <<percent_change, baseline_mean, current_mean>>)

\* Mutant of CompareMeans: no test for a zero baseline mean, so that the
\* division raises
CompareMeans_NoZeroTest(current_mean, baseline_mean, threshold_percent) ==
    IF IsZero(baseline_mean) THEN Raise("ZeroDivisionError")
    ELSE Verdict(~FGt(PercentChange(current_mean, baseline_mean),
                      threshold_percent), "compared", << >>)

\* check_regression from the loaded baseline on
CompareMeans(current_mean, baseline_mean, threshold_percent) ==
    IF IsZero(baseline_mean)
    THEN Verdict(FALSE, "Invalid baseline: mean latency is zero", << >>)
    ELSE Compare(current_mean, baseline_mean,
                 PercentChange(current_mean, baseline_mean), threshold_percent)

\* Mutant of CompareWithFile: a missing baseline fails the check
CompareWithFile_AbsentFails(current_mean, baseline_filepath, file, threshold_percent) ==
    IF file = Absent
    THEN Verdict(FALSE, "No baseline found at {baseline_filepath}. Creating baseline.",
                 <<baseline_filepath>>)
    ELSE IF file = Unparsable THEN Raise("JSONDecodeError")
    ELSE IF "mean" \notin DOMAIN file.obj THEN Raise("KeyError")
    ELSE Verdict(~FGt(PercentChange(current_mean, file.obj.mean),
                      threshold_percent), "compared", << >>)

\* check_regression from the existence test of the baseline on: json.load
\* raises JSONDecodeError on text that is not JSON, baseline["mean"] raises
\* KeyError on an object without that key
CompareWithFile(current_mean, baseline_filepath, file, threshold_percent) ==
    IF file = Absent
    THEN Verdict(TRUE, "No baseline found at {baseline_filepath}. Creating baseline.",
                 <<baseline_filepath>>)
    ELSE IF file = Unparsable THEN Raise("JSONDecodeError")
    ELSE IF "mean" \notin DOMAIN file.obj THEN Raise("KeyError")
    ELSE CompareMeans(current_mean, file.obj.mean, threshold_percent)

\* Mutant of CheckRegressionResult: the 95th percentile of the record is what is
\* compared, current_mean being results_dict["p95"]
CheckRegressionResult_ByP95(results_dict, baseline_filepath, file, threshold_percent) ==
    IF results_dict = None
    THEN Verdict(FALSE, "No benchmark results available. Run benchmark first.",
                 << >>)
    ELSE CompareWithFile(results_dict.p95, baseline_filepath, file,
                         threshold_percent)

\* Mutant of CheckRegressionResult: the baseline file is looked at before
\* the record
CheckRegressionResult_FileFirst(results_dict, baseline_filepath, file, threshold_percent) ==
    IF file = Absent
    THEN Verdict(TRUE, "No baseline found at {baseline_filepath}. Creating baseline.",
                 <<baseline_filepath>>)
    ELSE IF file = Unparsable THEN Raise("JSONDecodeError")
    ELSE Verdict(FALSE, "No benchmark results available. Run benchmark first.",
                 << >>)

\* What check_regression(baseline_filepath, threshold_percent) returns or
\* raises when the harness holds results_dict and the file holds file
CheckRegressionResult(results_dict, baseline_filepath, file, threshold_percent) ==
    IF results_dict = None
    THEN Verdict(FALSE, "No benchmark results available. Run benchmark first.",
                 << >>)
    ELSE CompareWithFile(results_dict.mean, baseline_filepath, file,
                         threshold_percent)

\* Mutant of check_regression: a missing baseline is created from the
\* record held
check_regression_CreatesBaseline(baseline_filepath, threshold_percent) ==
    /\ ret' = [op |-> "check_regression",
               baseline_filepath |-> baseline_filepath,
               threshold_percent |-> threshold_percent,
               result |-> CheckRegressionResult(_results_dict,
                                                baseline_filepath,
                                                fs[baseline_filepath],
                                                threshold_percent)]
    /\ fs' = IF _results_dict # None /\ fs[baseline_filepath] = Absent
             THEN [fs EXCEPT ![baseline_filepath] = Json(_results_dict)]
             ELSE fs
    /\ UNCHANGED <<pc, environ, config, num_iterations, mock_response_time, results, _results_dict>>

\* BenchmarkHarness.check_regression(baseline_filepath, threshold_percent)
check_regression(baseline_filepath, threshold_percent) ==
    /\ ret' = [op |-> "check_regression",
               baseline_filepath |-> baseline_filepath,
               threshold_percent |-> threshold_percent,
               result |-> CheckRegressionResult(_results_dict,
                                                baseline_filepath,
                                                fs[baseline_filepath],
                                                threshold_percent)]
    /\ UNCHANGED <<pc, environ, config, num_iterations, mock_response_time, results,
                   _results_dict, fs>>

CheckRegression ==
    /\ Idle
    /\ \E baseline_filepath \in Paths, threshold_percent \in Thresholds :
           check_regression(baseline_filepath, threshold_percent)

\* What another actor's write or removal of the baseline leaves of a run of
\* scripts/check_regression.py that has looked at the file: the run is no
\* longer alone with the file, and a file removed while save_results has it
\* open is no longer the file of that name.  A run that is still measuring
\* has not looked at the file.
Disturbed(frame, removed) ==
    IF frame.op = "scripts/check_regression.py" /\ frame.at # "run"
    THEN [frame EXCEPT !.undisturbed = FALSE,
                       !.unlinked = @ \/ (removed /\ frame.at = "dump")]
    ELSE frame

\* A caller writes a baseline file by hand (json.dump of the tests)
WriteBaseline ==
    \E path \in Paths, content \in WrittenContents :
        /\ fs' = [fs EXCEPT ![path] = content]
        /\ ret' = [op |-> "write_baseline", filepath |-> path]
        /\ pc' = Disturbed(pc, FALSE)
        /\ UNCHANGED <<environ, config, num_iterations, mock_response_time,
                       results, _results_dict>>

\* The calls of one caller, one at a time
Next ==
    \/ RunBenchmark
    \/ SaveResults
    \/ CheckRegression
    \/ Idle /\ WriteBaseline

Spec == Init /\ [][Next]_vars

(***************************************************************************)
(* _percentile called on its own, on any data and percentile               *)
(***************************************************************************)
\* The percentiles asked of _percentile: the ends, the middle, and the 95
\* and 99 of run_benchmark
Percentiles == {FromInt(0), FromInt(50), FromInt(95), FromInt(99), FromInt(100)}

\* The data of test_percentile_calculation: 1.0, 2.0, ..., 10.0
OneToTen == [i \in 1..10 |-> FromInt(i)]

\* The data given to it: up to MaxIter latencies, in any order, and OneToTen
DataSets == UNION {[1..n -> Latencies] : n \in 0..MaxIter} \cup {OneToTen}

\* The caller's list after _percentile(data, percentile): sorted(data) builds
\* a new list and nothing assigns to data or to its elements
DataAfterPercentile(data) == data

Percentile ==
    \E data \in DataSets, percentile \in Percentiles :
        /\ ret' = [op |-> "_percentile", data |-> data,
                   percentile |-> percentile,
                   result |-> _percentile(data, percentile),
                   data_after |-> DataAfterPercentile(data)]
        /\ UNCHANGED <<pc, environ, config, num_iterations, mock_response_time, results,
                       _results_dict, fs>>

SpecPercentile == Init /\ [][Percentile]_vars

(***************************************************************************)
(* save_results step by step, with a reader in another process             *)
(*                                                                         *)
(* open(filepath, "w") empties the file at once; json.dump writes into the *)
(* buffer of the file object, and the text reaches the file when the with  *)
(* block closes it.  Between the two the harness is inside save_results:   *)
(* pc.op = "save_results", with the path, the content the file had before, *)
(* and what a reader has loaded from it since.                             *)
(***************************************************************************)
\* with open(filepath, "w") as f: the file is created or emptied
SaveOpen ==
    \E filepath \in Paths :
        /\ Idle
        /\ _results_dict # None
        /\ fs' = [fs EXCEPT ![filepath] = Unparsable]
        /\ pc' = [op |-> "save_results", line |-> 93, filepath |-> filepath,
                  previous |-> fs[filepath], loaded |-> None]
        /\ UNCHANGED <<environ, config, num_iterations, mock_response_time,
                       results, _results_dict, ret>>

\* json.dump(self._results_dict, f, indent=2) and the end of the with block
SaveClose ==
    /\ pc.op = "save_results"
    /\ fs' = [fs EXCEPT ![pc.filepath] = Json(_results_dict)]
    /\ ret' = [op |-> "save_results", filepath |-> pc.filepath,
               result |-> None]
    /\ pc' = [op |-> "idle"]
    /\ UNCHANGED <<environ, config, num_iterations, mock_response_time,
                   results, _results_dict>>

\* json.load of a file, as check_regression does of its baseline
LoadJson(file) ==
    IF file = Absent THEN Raise("FileNotFoundError")
    ELSE IF file = Unparsable THEN Raise("JSONDecodeError")
    ELSE file.obj

\* Another process loads the file while save_results is inside its with
\* block
LoadWhileSaving ==
    /\ pc.op = "save_results"
    /\ pc' = [pc EXCEPT !.loaded = LoadJson(fs[pc.filepath])]
    /\ UNCHANGED <<environ, config, num_iterations, mock_response_time,
                   results, _results_dict, fs, ret>>

NextConcurrent ==
    \/ RunBenchmark
    \/ Idle /\ WriteBaseline
    \/ SaveOpen
    \/ SaveClose
    \/ LoadWhileSaving

SpecConcurrent == Init /\ [][NextConcurrent]_vars

(***************************************************************************)
(* scripts/check_regression.py: one run of the script is one process that  *)
(* builds its own harness, runs it, checks the baseline and, unless the    *)
(* check failed against an existing baseline, saves its record as the new  *)
(* baseline.  run_benchmark waits in time.sleep on each pass of its loop,  *)
(* and the baseline can be written or removed by another actor during each *)
(* wait and between any two accesses of the run to the file, so the run is *)
(* a step for each pass and for each access; pc.at is where it is:         *)
(*   "run"     harness.run_benchmark(), with pc.line, pc.remaining and     *)
(*             pc.latencies as in RunBenchmark                             *)
(*   "exists"  baseline_filepath.exists() of check_regression              *)
(*   "open"    open(baseline_filepath) and json.load of check_regression   *)
(*   "print"   print(message) and baseline_path.exists() of main           *)
(*   "save"    open(filepath, "w") of save_results                         *)
(*   "dump"    json.dump and the end of the with block of save_results     *)
(* From "exists" on, pc.before is the file as it was when run_benchmark    *)
(* returned, before the run first looks at it, pc.found what               *)
(* check_regression found in it, pc.check the verdict, pc.undisturbed and  *)
(* pc.unlinked what the other actors have done since (see Disturbed).      *)
(***************************************************************************)
\* num_iterations of the script's harness
ScriptIterations == 100

\* baseline_path and threshold_percent of the script
ScriptBaseline == "benchmark_baseline.json"
ScriptThreshold == FromInt(15)

\* What the ScriptIterations passes of one run measure: 0.0559 s in the
\* first pc.fast passes and 0.115 s in the others (as in Latencies), for
\* none, half or all of the passes
ScriptFast == {0, ScriptIterations \div 2, ScriptIterations}

\* Lines 12-13 of main, to the loop of run_benchmark:
\* BenchmarkHarness(num_iterations=100, mock_response_time=0.05), then
\* latencies = [] and range(self.num_iterations) of run_benchmark.  The
\* harness belongs to the process.
ScriptRun ==
    /\ Idle
    /\ num_iterations' = ScriptIterations
    /\ mock_response_time' = Dec(5, 100)
    /\ results' = << >>
    /\ _results_dict' = None
    /\ ret' = [op |-> "__init__"]
    /\ \E fast \in ScriptFast :
           pc' = [op |-> "scripts/check_regression.py", at |-> "run",
                  line |-> 40, remaining |-> ScriptIterations,
                  latencies |-> << >>, fast |-> fast]
    /\ UNCHANGED <<environ, config, fs>>

\* Lines 41-42 of benchmark.py, one pass of the loop: get_move_with_timing
\* waits and measures latency, which is appended
ScriptRunMeasure ==
    /\ pc.op = "scripts/check_regression.py" /\ pc.at = "run"
    /\ pc.line = 40 /\ pc.remaining > 0
    /\ \E latency \in {IF Len(pc.latencies) < pc.fast THEN Dec(559, 10000)
                        ELSE Dec(115, 1000)} :
           pc' = [pc EXCEPT !.remaining = @ - 1,
                            !.latencies = Append(@, latency)]
    /\ UNCHANGED <<environ, config, num_iterations, mock_response_time,
                   results, _results_dict, fs, ret>>

\* Line 44 of benchmark.py, after the loop: self.results = latencies
ScriptRunAssign ==
    /\ pc.op = "scripts/check_regression.py" /\ pc.at = "run"
    /\ pc.line = 40 /\ pc.remaining = 0
    /\ results' = pc.latencies
    /\ pc' = [pc EXCEPT !.line = 46]
    /\ UNCHANGED <<environ, config, num_iterations, mock_response_time,
                   _results_dict, fs, ret>>

\* Lines 46-59 of benchmark.py: the dict is built and assigned, and
\* run_benchmark returns to line 13 of main, which goes on to
\* check_regression
ScriptRunRecord ==
    /\ pc.op = "scripts/check_regression.py" /\ pc.at = "run"
    /\ pc.line = 46
    /\ _results_dict' = ResultsDict(pc.latencies)
    /\ pc' = [op |-> "scripts/check_regression.py", at |-> "exists",
              before |-> fs[ScriptBaseline], found |-> None, check |-> None,
              undisturbed |-> TRUE, unlinked |-> FALSE]
    /\ UNCHANGED <<environ, config, num_iterations, mock_response_time,
                   results, fs, ret>>

\* The process ends with status code: main has returned it, or an exception
\* has left main (status 1, nothing printed but the traceback); saved tells
\* whether the text of its record has reached the baseline file
ScriptExit(code, printed, raised) ==
    /\ ret' = [op |-> "scripts/check_regression.py", exit |-> code,
               printed |-> printed, raised |-> raised,
               saved |-> code = 0 /\ ~pc.unlinked]
    /\ pc' = [op |-> "idle"]

\* check_regression, lines 107-111 of benchmark.py: a record is held, and
\* the baseline exists or not
ScriptCheckExists ==
    /\ pc.op = "scripts/check_regression.py" /\ pc.at = "exists"
    /\ pc' = IF fs[ScriptBaseline] = Absent
             THEN [pc EXCEPT !.at = "print", !.found = Absent,
                             !.check = CheckRegressionResult(
                                           _results_dict, ScriptBaseline,
                                           Absent, ScriptThreshold)]
             ELSE [pc EXCEPT !.at = "open"]
    /\ UNCHANGED <<environ, config, num_iterations, mock_response_time,
                   results, _results_dict, fs, ret>>

\* check_regression, lines 113-136 of benchmark.py: the baseline is opened,
\* which raises FileNotFoundError if it is no longer there, loaded and
\* compared; main catches nothing
ScriptCheckLoad ==
    /\ pc.op = "scripts/check_regression.py" /\ pc.at = "open"
    /\ \E check \in {IF fs[ScriptBaseline] = Absent
                      THEN Raise("FileNotFoundError")
                      ELSE CheckRegressionResult(_results_dict, ScriptBaseline,
                                                 fs[ScriptBaseline],
                                                 ScriptThreshold)} :
           IF IsRaised(check)
           THEN ScriptExit(1, None, check)
           ELSE /\ pc' = [pc EXCEPT !.at = "print", !.check = check,
                                    !.found = fs[ScriptBaseline]]
                /\ ret' = ret
    /\ UNCHANGED <<environ, config, num_iterations, mock_response_time,
                   results, _results_dict, fs>>

\* Mutant of ReturnsOne: main returns 1 whenever a baseline exists
ReturnsOne_OnBaseline(passed, exists) == exists

\* Mutant of ReturnsOne: main never returns 1
ReturnsOne_Never(passed, exists) == FALSE

\* Line 20 of main: not passed and baseline_path.exists()
ReturnsOne(passed, exists) == ~passed /\ exists

\* Lines 18-21 of main: the message is printed, and main returns 1 or goes
\* on to save
ScriptPrint ==
    /\ pc.op = "scripts/check_regression.py" /\ pc.at = "print"
    /\ IF ReturnsOne(pc.check.passed, fs[ScriptBaseline] # Absent)
       THEN ScriptExit(1, pc.check.message, None)
       ELSE /\ pc' = [pc EXCEPT !.at = "save"]
            /\ ret' = ret
    /\ UNCHANGED <<environ, config, num_iterations, mock_response_time,
                   results, _results_dict, fs>>

\* save_results, lines 89-92 of benchmark.py: a record is held, and
\* open(filepath, "w") creates the file or empties it
ScriptSaveOpen ==
    /\ pc.op = "scripts/check_regression.py" /\ pc.at = "save"
    /\ fs' = [fs EXCEPT ![ScriptBaseline] = Unparsable]
    /\ pc' = [pc EXCEPT !.at = "dump"]
    /\ UNCHANGED <<environ, config, num_iterations, mock_response_time,
                   results, _results_dict, ret>>

\* save_results, line 93 of benchmark.py, and line 25 of main: the text of
\* the record reaches the file that was opened when the with block closes
\* it, over what another actor has written into it since, and main returns
\* 0.  A file removed since is no longer the file of that name.
ScriptSaveClose ==
    /\ pc.op = "scripts/check_regression.py" /\ pc.at = "dump"
    /\ fs' = IF pc.unlinked THEN fs
             ELSE [fs EXCEPT ![ScriptBaseline] = Json(_results_dict)]
    /\ ScriptExit(0, pc.check.message, None)
    /\ UNCHANGED <<environ, config, num_iterations, mock_response_time,
                   results, _results_dict>>

\* main() of scripts/check_regression.py
ScriptMain ==
    \/ ScriptRun
    \/ ScriptRunMeasure
    \/ ScriptRunAssign
    \/ ScriptRunRecord
    \/ ScriptCheckExists
    \/ ScriptCheckLoad
    \/ ScriptPrint
    \/ ScriptSaveOpen
    \/ ScriptSaveClose

\* The baseline file is removed by hand
RemoveBaseline ==
    /\ fs[ScriptBaseline] # Absent
    /\ fs' = [fs EXCEPT ![ScriptBaseline] = Absent]
    /\ ret' = [op |-> "remove_baseline", filepath |-> ScriptBaseline]
    /\ pc' = Disturbed(pc, TRUE)
    /\ UNCHANGED <<environ, config, num_iterations, mock_response_time,
                   results, _results_dict>>

NextScript ==
    \/ ScriptMain
    \/ WriteBaseline
    \/ RemoveBaseline

\* The harness is built by the script: before its first run there is none,
\* and one harness stands for all
InitScript == Init /\ num_iterations = 1

SpecScript == InitScript /\ [][NextScript]_vars

(***************************************************************************)
(* The command line: Config and main of llmchess/cli.py                    *)
(***************************************************************************)
harness == <<pc, num_iterations, mock_response_time, results, _results_dict, fs>>

\* The environment is set before the program runs
Setenv ==
    \E e \in EnvironValues :
        /\ environ' = e
        /\ ret' = [op |-> "os.environ"]
        /\ UNCHANGED <<config, harness>>

\* Mutant of ConfigOf: a variable that is set is used before the parameter
ConfigOf_EnvironFirst(endpoint, model, verbose) ==
    [endpoint |-> IF environ.AZURE_AI_FOUNDRY_ENDPOINT # None
                  THEN environ.AZURE_AI_FOUNDRY_ENDPOINT ELSE endpoint,
     model |-> IF environ.AZURE_AI_MODEL # None
               THEN environ.AZURE_AI_MODEL ELSE model,
     verbose |-> verbose]

\* The fields of Config(endpoint, model, verbose): a parameter that is None
\* or empty gives way to os.environ.get of its variable
ConfigOf(endpoint, model, verbose) ==
    [endpoint |-> IF Truthy(endpoint) THEN endpoint
                  ELSE environ.AZURE_AI_FOUNDRY_ENDPOINT,
     model |-> IF Truthy(model) THEN model ELSE environ.AZURE_AI_MODEL,
     verbose |-> verbose]

\* Config.__init__(endpoint, model, verbose)
NewConfig ==
    \E endpoint \in {None, Str(<< >>)} \cup EndpointTexts,
       model \in {None, Str(<< >>)} \cup ModelTexts, verbose \in BOOLEAN :
        /\ config' = ConfigOf(endpoint, model, verbose)
        /\ ret' = [op |-> "Config", endpoint |-> endpoint, model |-> model,
                   verbose |-> verbose]
        /\ UNCHANGED <<environ, harness>>

\* Config.validate()
Validate ==
    /\ config # None
    /\ ret' = [op |-> "validate",
               result |-> ValidateResult(config.endpoint, config.model)]
    /\ UNCHANGED <<environ, config, harness>>

\* The command lines, by what argparse finds in them: the options given (a
\* flag that is absent being None), --version, --help, an argument the
\* parser does not know, --endpoint without its value
CommandLines ==
    [kind : {"options"}, endpoint : {None, Str(<< >>)} \cup EndpointTexts,
     model : {None, Str(<< >>)} \cup ModelTexts, verbose : BOOLEAN]
        \cup {[kind |-> k] : k \in {"--version", "--help", "--invalid-arg",
                                    "--endpoint"}}

\* parse_args(args): the Namespace, or the SystemExit of argparse, which
\* prints the version or the help and exits with 0, and exits with 2 on an
\* error
parse_args(args) ==
    IF args.kind = "options"
    THEN [endpoint |-> args.endpoint, model |-> args.model,
          verbose |-> args.verbose]
    ELSE IF args.kind \in {"--version", "--help"}
    THEN RaiseWith("SystemExit", [code |-> 0])
    ELSE RaiseWith("SystemExit", [code |-> 2])

\* What may happen inside config.validate() while main runs: nothing, an
\* interrupt from the keyboard, an exception that is no ConfigurationError
Faults == {"none", "KeyboardInterrupt", "RuntimeError"}

Returned(code) == [returned |-> code]

\* main from the Config on: the handlers of its try statement
MainFromConfig(cfg, fault) ==
    IF fault = "KeyboardInterrupt" THEN Returned(130)
    ELSE IF fault = "RuntimeError" THEN Returned(1)
    ELSE IF IsRaised(ValidateResult(cfg.endpoint, cfg.model)) THEN Returned(1)
    ELSE Returned(0)

\* What main(argv) returns or lets out: SystemExit is no Exception, and no
\* handler of main catches it
MainResult(args, fault) ==
    IF IsRaised(parse_args(args)) THEN parse_args(args)
    ELSE MainFromConfig(ConfigOf(parse_args(args).endpoint,
                                 parse_args(args).model,
                                 parse_args(args).verbose), fault)

\* main(argv)
main(args, fault) ==
    /\ ret' = [op |-> "main", argv |-> args, fault |-> fault,
               result |-> MainResult(args, fault)]
    /\ config' = IF IsRaised(parse_args(args)) THEN config
                 ELSE ConfigOf(args.endpoint, args.model, args.verbose)
    /\ UNCHANGED <<environ, harness>>

Main ==
    \E args \in CommandLines, fault \in Faults :
        /\ args.kind # "options" => fault = "none"
        /\ main(args, fault)

NextCli ==
    \/ Setenv
    \/ NewConfig
    \/ Validate
    \/ Main

\* The command line builds no harness: one harness stands for all
InitCli == Init /\ num_iterations = 1

SpecCli == InitCli /\ [][NextCli]_vars

(***************************************************************************)
(* A harness whose num_iterations is assigned by another thread, between   *)
(* the calls of the caller or while run_benchmark waits, and whose run may *)
(* be interrupted inside the measuring loop.  The caller runs the          *)
(* benchmark and checks for a regression; it saves nothing, so that no     *)
(* baseline exists: results and _results_dict, which save_results only     *)
(* reads, are what this specification follows.                             *)
(***************************************************************************)
\* harness.num_iterations = n
SetNumIterations ==
    \E n \in (-1..MaxIter) \ {num_iterations} :
        /\ num_iterations' = n
        /\ ret' = [op |-> "num_iterations", value |-> n]
        /\ UNCHANGED <<pc, environ, config, mock_response_time, results,
                       _results_dict, fs>>

\* run_benchmark is left by an exception of get_move_with_timing (an
\* interrupt from the keyboard) inside a pass of the loop: latencies is a
\* local list, and nothing of the harness has been assigned
RunInterrupted ==
    /\ pc.op = "run_benchmark" /\ pc.line = 40 /\ pc.remaining > 0
    /\ ret' = [op |-> "run_benchmark", samples |-> pc.latencies,
               result |-> Raise("KeyboardInterrupt")]
    /\ pc' = [op |-> "idle"]
    /\ UNCHANGED <<environ, config, num_iterations, mock_response_time,
                   results, _results_dict, fs>>

NextReconfigured ==
    \/ RunBenchmark
    \/ RunInterrupted
    \/ CheckRegression
    \/ SetNumIterations

SpecReconfigured == Init /\ [][NextReconfigured]_vars

(***************************************************************************)
(* Config._is_valid_model_name and the model's entry of validate, on every *)
(* text of at most MaxNameLen characters of NameChars                      *)
(***************************************************************************)
MaxNameLen == 3

\* "a", "4", "-", "/", " ", "\n", "@", e with an acute accent
NameChars == {97, 52, 45, 47, 32, 10, 64, 233}
ModelNames == {Str(s) : s \in UNION {[1..n -> NameChars] : n \in 0..MaxNameLen}}

\* Config(model=model) is validated: what _is_valid_model_name returns and
\* what validate appends for the model
ValidateModelName ==
    \E model \in ModelNames :
        /\ ret' = [op |-> "_is_valid_model_name", model |-> model,
                   result |-> _is_valid_model_name(model),
                   errors |-> ModelErrors(model)]
        /\ UNCHANGED <<environ, config, harness>>

SpecModelName == InitCli /\ [][ValidateModelName]_vars

(***************************************************************************)
(* The claims                                                              *)
(***************************************************************************)
\* The call check_regression has just returned from, with a record held and
\* a baseline file that holds a nonzero mean
ComparedWithBaseline ==
    /\ Idle
    /\ ret.op = "check_regression"
    /\ _results_dict # None
    /\ fs[ret.baseline_filepath].kind = "json"
    /\ "mean" \in DOMAIN fs[ret.baseline_filepath].obj
    /\ ~IsZero(fs[ret.baseline_filepath].obj.mean)

\* C1: with a record held and a baseline of nonzero mean, check_regression
\* passes exactly when percent_change <= threshold_percent: it fails only
\* when the change is strictly greater than the threshold.
C1_PassesIffWithinThreshold ==
    ComparedWithBaseline =>
        /\ ~IsRaised(ret.result)
        /\ ret.result.passed =
               FLe(PercentChange(_results_dict.mean,
                                 fs[ret.baseline_filepath].obj.mean),
                   ret.threshold_percent)
        /\ ret.result.message.text =
               IF ret.result.passed THEN CheckPassedText
               ELSE RegressionDetectedText

\* C1, its case: a change of exactly the threshold (mean 0.115 against a
\* baseline of 0.1 at 15 percent) has passed
C1_Witness ==
    /\ ComparedWithBaseline
    /\ ret.result.passed
    /\ PercentChange(_results_dict.mean, fs[ret.baseline_filepath].obj.mean)
           = ret.threshold_percent

\* C2: with no record held, check_regression returns (False, "No benchmark
\* results available. Run benchmark first."), whatever the baseline file is:
\* this test comes before any look at the file.
C2_NoResultsFirst ==
    (ret.op = "check_regression" /\ _results_dict = None) =>
        ret.result = Verdict(FALSE,
                             "No benchmark results available. Run benchmark first.",
                             << >>)

\* C2, its case: no record held, and the baseline file is absent in one call
\* and present in another (here: present)
C2_Witness ==
    /\ ret.op = "check_regression"
    /\ _results_dict = None
    /\ fs[ret.baseline_filepath] # Absent
    /\ ~ret.result.passed

\* C3: with a record held and no baseline file, check_regression returns
\* passed = True with the "No baseline found" message.
C3_AbsentBaselinePasses ==
    (ret.op = "check_regression" /\ _results_dict # None
         /\ fs[ret.baseline_filepath] = Absent) =>
        ret.result = Verdict(TRUE,
                             "No baseline found at {baseline_filepath}. Creating baseline.",
                             <<ret.baseline_filepath>>)

C3_Witness ==
    /\ ret.op = "check_regression"
    /\ _results_dict # None
    /\ fs[ret.baseline_filepath] = Absent
    /\ ret.result.passed

\* C4: with a record held and a baseline whose mean is 0, check_regression
\* returns passed = False with the "Invalid baseline" message and divides
\* nothing: no percent change is computed.
C4_ZeroBaselineInvalid ==
    (ret.op = "check_regression" /\ _results_dict # None
         /\ fs[ret.baseline_filepath].kind = "json"
         /\ "mean" \in DOMAIN fs[ret.baseline_filepath].obj
         /\ IsZero(fs[ret.baseline_filepath].obj.mean)) =>
        ret.result = Verdict(FALSE, "Invalid baseline: mean latency is zero",
                             << >>)

C4_Witness ==
    /\ ret.op = "check_regression"
    /\ _results_dict # None
    /\ fs[ret.baseline_filepath] = Json([mean |-> FZero, median |-> FZero])
    /\ ~ret.result.passed

\* C5: check_regression never raises: whatever the baseline file holds, a
\* file without "mean" and a file that is not JSON included, it returns a
\* (passed, message) pair.
C5_NeverRaises ==
    ret.op = "check_regression" => ~IsRaised(ret.result)

\* C6: save_results with no record held (before any run) raises
\* ValueError("No benchmark results to save. Run benchmark first.") and
\* leaves the storage as it was.
C6_SaveBeforeRunRaises ==
    [][(Idle /\ pc' = pc /\ _results_dict = None /\ ret'.op = "save_results") =>
           /\ ret'.result = RaiseWith("ValueError",
                  "No benchmark results to save. Run benchmark first.")
           /\ fs' = fs]_vars

\* C6, its case: a save that raised, with a file in the storage to lose
C6_Witness ==
    /\ Idle
    /\ ret.op = "save_results"
    /\ IsRaised(ret.result)
    /\ _results_dict = None
    /\ fs[ret.filepath] \in WrittenContents

\* The call run_benchmark has just returned from, its dict built
RanBenchmark == Idle /\ ret.op = "run_benchmark" /\ ~IsRaised(ret.result)

\* C7: after a run the record holds exactly num_iterations samples, those
\* of this run in the order measured, and none of an earlier run: results
\* and the record's latencies are the run's samples, and the record's
\* num_iterations is their count.
C7_RecordHoldsThisRun ==
    RanBenchmark =>
        /\ results = ret.samples
        /\ _results_dict = ret.result
        /\ _results_dict.latencies = ret.samples
        /\ Len(_results_dict.latencies) = num_iterations
        /\ _results_dict.num_iterations = Len(_results_dict.latencies)

\* C7, its case: a run after an earlier run whose record was saved, with
\* two samples that differ and other samples than the earlier run's
C7_Witness ==
    /\ RanBenchmark
    /\ Len(ret.samples) = 2
    /\ ret.samples[1] # ret.samples[2]
    /\ \E p \in Paths :
           /\ fs[p].kind = "json"
           /\ "latencies" \in DOMAIN fs[p].obj
           /\ fs[p].obj.latencies # ret.samples

\* C8: in a record, min <= median <= max and min <= mean <= max.
C8_MeanMedianWithinRange ==
    _results_dict # None =>
        /\ FLe(_results_dict.min, _results_dict.median)
        /\ FLe(_results_dict.median, _results_dict.max)
        /\ FLe(_results_dict.min, _results_dict.mean)
        /\ FLe(_results_dict.mean, _results_dict.max)

\* C8, its case: a record of samples that differ
C8_Witness ==
    /\ _results_dict # None
    /\ FLt(_results_dict.min, _results_dict.mean)
    /\ FLt(_results_dict.mean, _results_dict.max)

\* C9: in a record, p99 >= p95 >= median, a single sample and identical
\* samples included, where the three are equal.
C9_PercentilesOrdered ==
    _results_dict # None =>
        /\ FGe(_results_dict.p99, _results_dict.p95)
        /\ FGe(_results_dict.p95, _results_dict.median)

\* C10: on data that are not empty, _percentile(data, 100) is max(data) and
\* _percentile(data, 0) is min(data).
C10_PercentileEnds ==
    (ret.op = "_percentile" /\ ret.data # << >>) =>
        /\ ret.percentile = FromInt(100) => ret.result = max(ret.data)
        /\ ret.percentile = FromInt(0) => ret.result = min(ret.data)

\* C10, its case: the percentile 0 of two samples given largest first, which
\* goes through the sort and the interpolation
C10_Witness ==
    /\ ret.op = "_percentile"
    /\ Len(ret.data) = 2
    /\ FGt(ret.data[1], ret.data[2])
    /\ ret.percentile = FromInt(0)
    /\ ret.result = ret.data[2]

\* The estimator of the specification, step by step, on data that are not
\* empty: s is the ascending sort, index = (p / 100) * (n - 1),
\* lower = floor(index), upper = lower + 1, weight = index - lower; the
\* result is s[n - 1] when upper >= n and
\* s[lower] * (1 - weight) + s[upper] * weight otherwise (0-based)
EstimatorAt(s, index, lower) ==
    IF lower + 1 >= Len(s) THEN s[Len(s)]
    ELSE FAdd(FMul(s[lower + 1],
                   FSub(FromInt(1), FSub(index, FromInt(lower)))),
              FMul(s[lower + 2], FSub(index, FromInt(lower))))

Estimator(s, index) == EstimatorAt(s, index, FTrunc(index))

EstimatorIndex(p, n) == FMul(FDiv(p, FromInt(100)), FromInt(n - 1))

IsAscending(s) == \A i \in 1..(Len(s) - 1) : FLe(s[i], s[i + 1])

IsPermutation(s, t) ==
    /\ Len(s) = Len(t)
    /\ \A x \in Latencies \cup {t[i] : i \in 1..Len(t)} :
           Cardinality({i \in 1..Len(s) : s[i] = x})
               = Cardinality({i \in 1..Len(t) : t[i] = x})

\* C11: on data that are not empty and a percentile in [0, 100],
\* _percentile returns the linear interpolation between closest ranks of
\* the specification: over the ascending sort of the data, with
\* index = (p / 100) * (n - 1), the interpolation between the elements at
\* floor(index) and floor(index) + 1.  The clamp (upper >= n) is taken only
\* at index = n - 1, where the estimator is the last element, and the
\* caller's data are left as they were.
C11_InterpolatedPercentile ==
    (ret.op = "_percentile" /\ ret.data # << >>) =>
        /\ ~IsRaised(ret.result)
        /\ IsAscending(sorted(ret.data))
        /\ IsPermutation(sorted(ret.data), ret.data)
        /\ FGe(EstimatorIndex(ret.percentile, Len(ret.data)), FZero)
        /\ ret.result = Estimator(sorted(ret.data),
                                  EstimatorIndex(ret.percentile, Len(ret.data)))
        /\ (FTrunc(EstimatorIndex(ret.percentile, Len(ret.data))) + 1
                >= Len(ret.data))
               <=> (EstimatorIndex(ret.percentile, Len(ret.data))
                        = FromInt(Len(ret.data) - 1))
        /\ ret.data_after = ret.data

\* C11, its case: a percentile strictly between two elements of data given
\* out of order (95 of 1..10 or of two latencies, largest first)
C11_Witness ==
    /\ ret.op = "_percentile"
    /\ Len(ret.data) = 2
    /\ FGt(ret.data[1], ret.data[2])
    /\ ret.percentile = FromInt(95)
    /\ FLt(ret.data[2], ret.result)
    /\ FLt(ret.result, ret.data[1])
    /\ ret.data_after = ret.data

\* The call _percentile(OneToTen, p) has just returned from
PercentileOfOneToTen(p) ==
    ret.op = "_percentile" /\ ret.data = OneToTen /\ ret.percentile = FromInt(p)

\* 9.549999999999999, the binary64 number 5376172055173529 / 2^49 just
\* below 9.55
JustBelow955 == [sign |-> 0, mant |-> <<6553, 13107, 26214, 152>>, exp |-> -49]

\* C12 as stated: for data = [1, 2, ..., 10] the percentile is exactly 5.5
\* for p = 50, 9.495 for p = 95 and 9.819 for p = 99.
C12_AsStated ==
    /\ PercentileOfOneToTen(50) => ret.result = Dec(55, 10)
    /\ PercentileOfOneToTen(95) => ret.result = Dec(9495, 1000)
    /\ PercentileOfOneToTen(99) => ret.result = Dec(9819, 1000)

\* C12, amended: for data = [1, 2, ..., 10] the percentile is exactly 5.5
\* for p = 50 (index 4.5), 9.549999999999999 for p = 95 (index
\* 8.549999999999999: 9 * 0.45 + 10 * 0.55 in binary64) and 9.91 for p = 99
\* (index 8.91: 9 * 0.09 + 10 * 0.91).
C12_ValuesOfOneToTen ==
    /\ PercentileOfOneToTen(50) => ret.result = Dec(55, 10)
    /\ PercentileOfOneToTen(95) => ret.result = JustBelow955
    /\ PercentileOfOneToTen(99) => ret.result = Dec(991, 100)

\* C12, its case: the 95th percentile of 1..10 has been computed
C12_Witness ==
    /\ PercentileOfOneToTen(95)
    /\ FGt(ret.result, Dec(9495, 1000))
    /\ FLt(ret.result, Dec(955, 100))

\* C13: statistics over no samples fail with an error raised to the caller.
\* _percentile raises on empty data for every percentile, and a
\* run_benchmark that measures no sample (num_iterations <= 0) raises,
\* returns nothing, and creates or stores no record: the record held is
\* the one held before.
C13_EmptySamplesRaise ==
    [][/\ \A p \in Percentiles : IsRaised(_percentile(<< >>, p))
       /\ (pc.op = "run_benchmark" /\ pc'.op = "idle"
               /\ ret'.samples = << >>) =>
              /\ IsRaised(ret'.result)
              /\ _results_dict' = _results_dict]_vars

\* C13, its case: a run of a harness of no iterations has raised, and no
\* record is held
C13_Witness ==
    /\ Idle
    /\ ret.op = "run_benchmark"
    /\ ret.samples = << >>
    /\ num_iterations <= 0
    /\ IsRaised(ret.result)
    /\ results = << >>
    /\ _results_dict = None

\* C14: while save_results writes a record to a path, the file holds at
\* every moment either its complete previous content or the complete new
\* record, so that a reader in another process never loads a partly written
\* record.
C14_NoPartialRecord ==
    pc.op = "save_results" =>
        /\ fs[pc.filepath] \in {pc.previous, Json(_results_dict)}
        /\ pc.previous.kind = "json" => ~IsRaised(pc.loaded)

\* C15: check_regression only reads: on every path (no record, no baseline,
\* zero baseline, passed, failed, and the paths that raise) it leaves the
\* storage, the record held and the results list as they were.
C15_CheckRegressionReadsOnly ==
    [][(Idle /\ pc' = pc /\ ret'.op = "check_regression") =>
           /\ fs' = fs
           /\ _results_dict' = _results_dict
           /\ results' = results]_vars

\* C15, its case: a check against a missing baseline has passed and the
\* file is still missing, the record and the results still those of the run
C15_Witness ==
    /\ Idle
    /\ ret.op = "check_regression"
    /\ ret.result = Verdict(TRUE,
           "No baseline found at {baseline_filepath}. Creating baseline.",
           <<ret.baseline_filepath>>)
    /\ fs[ret.baseline_filepath] = Absent
    /\ _results_dict # None
    /\ results = _results_dict.latencies

\* A step of a run of the script: the run ends, reaches another access, or
\* moves on in run_benchmark
ScriptSteps ==
    /\ pc.op = "scripts/check_regression.py"
    /\ \/ pc'.op = "idle"
       \/ pc'.at # pc.at
       \/ pc.at = "run" /\ pc' # pc

\* A step that ends a run of the script
ScriptExits == pc.op = "scripts/check_regression.py" /\ pc'.op = "idle"

\* The run of the script that is ending regressed against the baseline it
\* had when run_benchmark returned: the file held a nonzero mean and the mean of the run is more
\* than ScriptThreshold percent above it
ScriptRegressed ==
    /\ pc.before.kind = "json"
    /\ "mean" \in DOMAIN pc.before.obj
    /\ ~IsZero(pc.before.obj.mean)
    /\ FGt(PercentChange(_results_dict.mean, pc.before.obj.mean),
           ScriptThreshold)

\* C16: the regression-check script exits non-zero only when a baseline
\* file existed and the run regressed against it (mean more than 15 percent
\* above the baseline's); a first run, with no baseline, writes its record
\* as the baseline and exits 0.  Stated of the runs during which no other
\* actor touches the file once run_benchmark has returned, the baseline
\* being the file of that moment.
C16_NonZeroOnlyOnRegression ==
    [][(ScriptExits /\ pc.undisturbed) =>
           /\ ret'.exit # 0 => (pc.before # Absent /\ ScriptRegressed)
           /\ pc.before = Absent =>
                  (ret'.exit = 0 /\ fs'[ScriptBaseline] = Json(_results_dict'))]_vars

\* The records a run can produce, one for each sequence of samples
RunSamples == UNION {[1..n -> Latencies] : n \in 1..MaxIter}
RecordOfRun(latencies) ==
    [ResultsDict(latencies) EXCEPT !.num_iterations = Len(latencies)]

\* The baseline files of mean m that are compared: the mean alone, the mean
\* with another field, and the saved records of the runs of that mean
BaselineFilesOfMean(m) ==
    {Json([mean |-> m]), Json([mean |-> m, median |-> m])}
        \cup {Json(RecordOfRun(latencies)) :
                 latencies \in {l \in RunSamples : mean(l) = m}}
HasMean(file) == file.kind = "json" /\ "mean" \in DOMAIN file.obj

\* C17: only the mean drives the decision.  Whatever check_regression has
\* returned for the record held, it returns the same verdict and message,
\* on the same baseline and threshold, for every other record of the same
\* mean (other latencies, stdev, percentiles, number of samples), and for
\* every other baseline file of the same mean, whatever other fields that
\* file carries or omits.
C17_OnlyMeanDecides ==
    (Idle /\ ret.op = "check_regression" /\ _results_dict # None) =>
        /\ \A latencies \in {l \in RunSamples : mean(l) = _results_dict.mean} :
           \A other \in {RecordOfRun(latencies)} :
               other.mean = _results_dict.mean =>
                   CheckRegressionResult(other, ret.baseline_filepath,
                                         fs[ret.baseline_filepath],
                                         ret.threshold_percent) = ret.result
        /\ HasMean(fs[ret.baseline_filepath]) =>
               \A file \in BaselineFilesOfMean(fs[ret.baseline_filepath].obj.mean) :
                   CheckRegressionResult(_results_dict, ret.baseline_filepath,
                                         file, ret.threshold_percent)
                       = ret.result

\* C17, its case: a record has been compared with a baseline of nonzero
\* mean that carries another field, while another run gives a record of the
\* same mean and another 95th percentile, and another file gives the same
\* mean alone
C17_Witness ==
    /\ ComparedWithBaseline
    /\ \E latencies \in RunSamples :
           /\ RecordOfRun(latencies).mean = _results_dict.mean
           /\ RecordOfRun(latencies).p95 # _results_dict.p95
           /\ RecordOfRun(latencies).latencies # _results_dict.latencies
    /\ \E file \in BaselineFilesOfMean(fs[ret.baseline_filepath].obj.mean) :
           file # fs[ret.baseline_filepath]

\* check_regression has just been called on the file that holds the saved
\* record of the harness
CheckedAgainstOwnRecord ==
    /\ Idle
    /\ ret.op = "check_regression"
    /\ _results_dict # None
    /\ fs[ret.baseline_filepath] = Json(_results_dict)

\* C18: after a run, saving the record to a path and calling
\* check_regression on that path returns passed = True with a percent
\* change of 0 (printed 0.00%), the two means being equal, for every record
\* a run produces and every threshold, the default of 10 included.
C18_OwnRecordPasses ==
    CheckedAgainstOwnRecord =>
        /\ ~IsRaised(ret.result)
        /\ ret.result.passed
        /\ ret.result.message.text = CheckPassedText
        /\ ret.result.message.values =
               <<FZero, _results_dict.mean, _results_dict.mean>>

\* C18, its case: the record of a run of two samples was saved and then
\* checked at the default threshold
C18_Witness ==
    /\ CheckedAgainstOwnRecord
    /\ ret.threshold_percent = FromInt(10)
    /\ Len(_results_dict.latencies) = 2
    /\ ret.result.passed

\* The Config validated last has an endpoint, or a model, that is present
\* and valid
EndpointOk == Truthy(config.endpoint) /\ _is_valid_url(config.endpoint)
ModelOk == Truthy(config.model) /\ _is_valid_model_name(config.model)

\* C19: Config.validate reports all violations together.  It raises
\* nothing exactly when the endpoint and the model are both present and
\* valid; otherwise it raises one ConfigurationError that holds one entry
\* for each field in violation, the endpoint's first: with both fields
\* missing or invalid it holds two entries, not the first one alone.
C19_ValidateAggregates ==
    ret.op = "validate" =>
        /\ (ret.result = None) <=> (EndpointOk /\ ModelOk)
        /\ ~(EndpointOk /\ ModelOk) =>
               /\ IsRaised(ret.result)
               /\ ret.result.raised = "ConfigurationError"
               /\ Len(ret.result.message.lines)
                      = (IF EndpointOk THEN 0 ELSE 1) + (IF ModelOk THEN 0 ELSE 1)
        /\ (~EndpointOk /\ ~ModelOk) =>
               /\ ret.result.message.lines[1].text =
                      IF Truthy(config.endpoint) THEN EndpointInvalidText
                      ELSE EndpointRequiredText
               /\ ret.result.message.lines[2].text =
                      IF Truthy(config.model) THEN ModelInvalidText
                      ELSE ModelRequiredText

\* C19, its case: a Config whose endpoint is not a URL and whose model is
\* missing has been validated, and the error holds both entries
C19_Witness ==
    /\ ret.op = "validate"
    /\ config.endpoint = NotAValidUrl
    /\ config.model = None
    /\ IsRaised(ret.result)
    /\ Len(ret.result.message.lines) = 2

\* C20: main yields 0 when the configuration validates, 1 on a
\* configuration error or another unexpected error, 130 on an interrupt,
\* and nothing else: no command line, a failure of the argument parsing
\* included, makes main return another code or let an exception out.
C20_MainExitCodes ==
    ret.op = "main" =>
        /\ ~IsRaised(ret.result)
        /\ ret.result.returned \in {0, 1, 130}
        /\ (ret.result.returned = 0) <=>
               (ret.fault = "none" /\ EndpointOk /\ ModelOk)
        /\ (ret.result.returned = 130) <=> (ret.fault = "KeyboardInterrupt")

\* A Config has just been built, by Config(...) or by main from a command
\* line that parses: the parameters it was given
BuiltConfig ==
    \/ ret.op = "Config"
    \/ ret.op = "main" /\ ret.argv.kind = "options"
GivenEndpoint == IF ret.op = "Config" THEN ret.endpoint ELSE ret.argv.endpoint
GivenModel == IF ret.op = "Config" THEN ret.model ELSE ret.argv.model

\* C21 as stated: a parameter or flag that is not empty is the field; the
\* environment is consulted only when the parameter is None, so that a
\* parameter that is given is the field; a parameter that is None gives
\* the variable, the field being missing when the variable is unset.
C21_AsStated ==
    BuiltConfig =>
        /\ GivenEndpoint # None => config.endpoint = GivenEndpoint
        /\ GivenEndpoint = None =>
               config.endpoint = environ.AZURE_AI_FOUNDRY_ENDPOINT
        /\ GivenModel # None => config.model = GivenModel
        /\ GivenModel = None => config.model = environ.AZURE_AI_MODEL

\* C21: explicit parameters take precedence over the environment.  For the
\* endpoint and for the model, a parameter or flag that is not empty is
\* the field, whatever the variable holds; a parameter that is None or the
\* empty string gives the variable, and the field is missing (None) when
\* the variable is unset.
C21_ParametersBeforeEnviron ==
    BuiltConfig =>
        /\ config.endpoint =
               IF Truthy(GivenEndpoint) THEN GivenEndpoint
               ELSE environ.AZURE_AI_FOUNDRY_ENDPOINT
        /\ config.model =
               IF Truthy(GivenModel) THEN GivenModel
               ELSE environ.AZURE_AI_MODEL

\* C21, its case: with both variables set, a Config was built from an
\* endpoint that differs from the variable and from no model
C21_Witness ==
    /\ ret.op = "Config"
    /\ environ.AZURE_AI_FOUNDRY_ENDPOINT = TestAzureCom
    /\ environ.AZURE_AI_MODEL = Gpt4
    /\ ret.endpoint = NotAValidUrl
    /\ ret.model = None
    /\ config.endpoint = NotAValidUrl
    /\ config.model = Gpt4

\* A model identifier as the specification has it: something is left of it
\* after trimming, and each of its characters is an ASCII letter, a digit,
\* "-", "_", "/" or "."
IsModelIdentifier(s) ==
    /\ \E i \in 1..Len(s) : ~IsWhitespace(s[i])
    /\ \A i \in 1..Len(s) :
           \/ s[i] \in 65..90 \/ s[i] \in 97..122 \/ s[i] \in 48..57
           \/ s[i] \in {45, 95, 47, 46}

\* C22: the validation of the model identifier accepts a string exactly
\* when it is not empty after trimming and all its characters are ASCII
\* letters, digits, "-", "_", "/" or "."; a string that is not empty and
\* holds any other character (whitespace, a trailing newline, "@", a letter
\* outside ASCII) gets the "invalid format" violation.
C22_ModelNameExactly ==
    ret.op = "_is_valid_model_name" =>
        /\ ret.result <=> IsModelIdentifier(ret.model.str)
        /\ (ret.model.str # << >> /\ ~IsModelIdentifier(ret.model.str)) =>
               ret.errors = <<[text |-> ModelInvalidText,
                               values |-> <<ret.model>>]>>

\* C23: whatever calls of run_benchmark (that succeed, or fail part-way, or
\* follow an assignment of num_iterations), save_results and
\* check_regression came before, when a record is held results is the
\* record's latencies and the record's num_iterations is their count: no
\* failed run leaves results and the record describing different runs.
C23_ResultsMatchRecord ==
    (Idle /\ _results_dict # None) =>
        /\ results = _results_dict.latencies
        /\ _results_dict.num_iterations = Len(_results_dict.latencies)

\* C24: over any sequence of runs of the regression script, the baseline
\* file changes only in a run that exits 0.  A run writes the file only once
\* it has gone on to save, from where it exits 0; a run that exits 1 has
\* written nothing and, if no other actor has touched the file, leaves it as
\* the run found it.  A run whose check passed exits 0, and after a run that
\* exits 0, a first run or a run that passed against a baseline, the file
\* holds that run's record (unless the file was removed while the run was
\* writing it).  A run that follows compares with what that run left: the
\* file still holds that record when the next process starts, run_benchmark
\* leaves the file alone, and what the check of a run finds is the file as
\* run_benchmark left it.
C24_BaselineFollowsPassingRuns ==
    [][/\ (ScriptSteps /\ fs' # fs) => pc.at \in {"save", "dump"}
       /\ (pc.op = "scripts/check_regression.py" /\ pc.at \in {"save", "dump"}
              /\ ScriptExits) =>
              ret'.exit = 0
       /\ ScriptExits =>
              /\ ret'.exit \in {0, 1}
              /\ ret'.exit = 1 =>
                     /\ fs' = fs
                     /\ pc.undisturbed => fs'[ScriptBaseline] = pc.before
              /\ ret'.exit = 0 =>
                     /\ ret'.saved = ~pc.unlinked
                     /\ ret'.saved =>
                            /\ fs'[ScriptBaseline] = Json(_results_dict')
                            /\ _results_dict'.latencies = results'
                            /\ _results_dict'.num_iterations = ScriptIterations
              /\ (pc.at = "print" /\ pc.check.message.text = CheckPassedText) =>
                     ret'.exit = 0
       /\ (Idle /\ ret.op = "scripts/check_regression.py" /\ ret.saved) =>
              fs[ScriptBaseline] = Json(_results_dict)
       /\ (ScriptSteps /\ pc.at = "run") =>
              /\ fs' = fs
              /\ pc'.at = "exists" => pc'.before = fs[ScriptBaseline]
       /\ (pc'.op = "scripts/check_regression.py" /\ pc'.at = "print"
              /\ pc'.undisturbed) =>
              pc'.found = pc'.before]_vars

\* C24, its case: a run has passed against the record an earlier run had
\* saved, a baseline of another mean than those written by hand, and has
\* replaced it with its own, which is another
C24_Witness ==
    /\ Idle
    /\ ret.op = "scripts/check_regression.py"
    /\ ret.exit = 0
    /\ ret.saved
    /\ ret.printed.text = CheckPassedText
    /\ ret.printed.values[2] \notin BaselineMeans
    /\ ret.printed.values[2] # _results_dict.mean
    /\ fs[ScriptBaseline] = Json(_results_dict)

\* The baseline file exists and its mean is zero
ZeroMeanBaseline(file) ==
    /\ file.kind = "json"
    /\ "mean" \in DOMAIN file.obj
    /\ IsZero(file.obj.mean)

\* C25: once the baseline file holds a mean of zero, every run of the
\* script, whatever it measures, prints the invalid-baseline verdict, exits
\* 1 and leaves the file as it is: the script never replaces an invalid
\* baseline, and the file stays invalid until another actor writes or
\* removes it.
C25_InvalidBaselineStays ==
    [][(ScriptExits /\ ZeroMeanBaseline(pc.before) /\ pc.undisturbed) =>
           /\ ret'.exit = 1
           /\ ret'.printed.text = "Invalid baseline: mean latency is zero"
           /\ fs' = fs
           /\ ZeroMeanBaseline(fs'[ScriptBaseline])]_vars

\* C25, its case: a run has just exited 1 with the invalid-baseline verdict
\* on a baseline of mean zero, which is still there
C25_Witness ==
    /\ Idle
    /\ ret.op = "scripts/check_regression.py"
    /\ ret.exit = 1
    /\ ret.printed # None
    /\ ret.printed.text = "Invalid baseline: mean latency is zero"
    /\ ZeroMeanBaseline(fs[ScriptBaseline])

====
